---- MODULE Spec2Model ----
(***************************************************************************)
(* A model of gogl's Bernoulli random-graph generator (rand/bernoulli.go)  *)
(* and of its graph specification builder (builder.go).                    *)
(*                                                                         *)
(* Go values are modelled as follows.                                      *)
(*   - a float64 probability is a rational [num, den];                     *)
(*   - a rand.Source is a deterministic state machine: its state is a      *)
(*     number, every Float64() advances the state and returns state/16;    *)
(*     every non-nil src argument is a source of its own;                  *)
(*   - a [][]struct{} is a function from row index to row, a row is a      *)
(*     function from column index to the one value of type struct{};       *)
(*     the nil slice is the function with the empty domain;                *)
(*   - a callback (EdgeLambda, VertexLambda) is given by stopAt: it        *)
(*     returns true on its stopAt-th invocation and false on every other   *)
(*     one (stopAt = 0: it never asks to terminate).                       *)
(***************************************************************************)
EXTENDS Integers, Sequences, FiniteSets, TLC

VARIABLES gen, globalRand, log, cur, recv, call, br, nq, mg

vars == <<gen, globalRand, log, cur, recv, call, br, nq, mg>>

bernVars == <<gen, globalRand, log>>

builderVars == <<cur, recv, call>>

otherVars == <<br, nq, mg>>

(***************************************************************************)
(* Bounds of the model.                                                    *)
(***************************************************************************)
MaxOrder == 3

\* The calls made on one generator: under Spec, under EdgeSpec and under TwinSpec.
MaxCalls == 2

\* The largest of the small orders whose Size() is computed.
MaxSizeOrder == 10

MaxTraversals == 3

MaxTwinCalls == 2

MaxStop == 2

MaxSeed == 1

\* Builder calls on the variables that hold branched specs.
MaxBranchCalls == 2

\* Edges a mutable graph holds at most.
MaxEdges == 3

Gens == {1, 2}

Orders == 0..MaxOrder

Stops == 0..MaxStop

Seeds == 0..MaxSeed

\* The probabilities tried: -0.1, 0.0, 0.5, 0.9 and 1.0.
Rhos ==
    { [num |-> -1, den |-> 10], [num |-> 0, den |-> 1], [num |-> 1, den |-> 2],
      [num |-> 9, den |-> 10], [num |-> 1, den |-> 1] }

(***************************************************************************)
(* The random source.                                                      *)
(***************************************************************************)
\* One step of the source: the state after a call of Float64().
RandNext(s) == (5 * s + 3) % 16

\* r.Float64() < rho, where s is the state after the draw (the value drawn is s/16).
Trial(s, rho) == s * rho.den < rho.num * 16

\* The value of type struct{}.
EmptyStruct == "struct{}"

\* The nil slice.
NilSlice == [i \in {} |-> EmptyStruct]

\* make([][]struct{}, order, order): order rows, each the nil slice.
MakeList(order) == [u \in 0..(order - 1) |-> NilSlice]

\* make([]struct{}, order)
MakeRow(order) == [v \in 0..(order - 1) |-> EmptyStruct]

SliceLen(s) == Cardinality(DOMAIN s)

\* The wrapping edge lambda ff of the stable first pass, up to its call of f:
\* it allocates the row of the edge's source on demand and stores struct{}{}
\* at the target's index.
Record(list, order, e) ==
    LET row == IF SliceLen(list[e[1]]) = 0 THEN MakeRow(order) ELSE list[e[1]]
    IN  [list EXCEPT ![e[1]] = [row EXCEPT ![e[2]] = EmptyStruct]]

RECURSIVE RecordAll(_, _, _, _)
RecordAll(list, order, es, i) ==
    IF i > Len(es) THEN list
    ELSE RecordAll(Record(list, order, es[i]), order, es, i + 1)


(***************************************************************************)
(* The callbacks.                                                          *)
(***************************************************************************)
\* The result of the k-th invocation of the step function given by stopAt.
Terminate(stopAt, k) == k = stopAt

(***************************************************************************)
(* The two trial loops.  A loop state is the pair of loop variables (u, v) *)
(* the state of the source, the edges handed to el so far and the number   *)
(* of trials run so far.                                                   *)
(***************************************************************************)
RECURSIVE EdgeLoop(_, _, _, _, _, _, _, _)
EdgeLoop(u, v, order, rho, rng, stopAt, acc, trials) ==
    IF u >= order
    THEN [delivered |-> acc, rng |-> rng, trials |-> trials, terminated |-> FALSE]
    ELSE IF v >= order
    THEN EdgeLoop(u + 1, u + 2, order, rho, rng, stopAt, acc, trials)
    ELSE LET r == RandNext(rng)
         IN  IF Trial(r, rho)
             THEN LET acc2 == Append(acc, <<u, v>>)
                  IN  IF Terminate(stopAt, Len(acc2))
                      THEN [delivered |-> acc2, rng |-> r, trials |-> trials + 1,
                            terminated |-> TRUE]
                      ELSE EdgeLoop(u, v + 1, order, rho, r, stopAt, acc2, trials + 1)
             ELSE EdgeLoop(u, v + 1, order, rho, r, stopAt, acc, trials + 1)

RECURSIVE ArcLoop(_, _, _, _, _, _, _, _)
ArcLoop(u, v, order, rho, rng, stopAt, acc, trials) ==
    IF u >= order
    THEN [delivered |-> acc, rng |-> rng, trials |-> trials, terminated |-> FALSE]
    ELSE IF v >= order
    THEN ArcLoop(u + 1, 0, order, rho, rng, stopAt, acc, trials)
    ELSE IF u = v
    THEN ArcLoop(u, v + 1, order, rho, rng, stopAt, acc, trials)
    ELSE LET r == RandNext(rng)
         IN  IF Trial(r, rho)
             THEN LET acc2 == Append(acc, <<u, v>>)
                  IN  IF Terminate(stopAt, Len(acc2))
                      THEN [delivered |-> acc2, rng |-> r, trials |-> trials + 1,
                            terminated |-> TRUE]
                      ELSE ArcLoop(u, v + 1, order, rho, r, stopAt, acc2, trials + 1)
             ELSE ArcLoop(u, v + 1, order, rho, r, stopAt, acc, trials + 1)

\* A creator that goes on after el returned true.
bernoulliEdgeCreatorDeaf(order, rho, rng, stopAt) ==
    EdgeLoop(0, 1, order, rho, rng, 0, <<>>, 0)

bernoulliEdgeCreator(order, rho, rng, stopAt) ==
    EdgeLoop(0, 1, order, rho, rng, stopAt, <<>>, 0)

\* An arc creator that runs the loops of the edge creator.
bernoulliArcCreatorUpper(order, rho, rng, stopAt) ==
    EdgeLoop(0, 1, order, rho, rng, stopAt, <<>>, 0)

bernoulliArcCreator(order, rho, rng, stopAt) ==
    ArcLoop(0, 0, order, rho, rng, stopAt, <<>>, 0)

(***************************************************************************)
(* The replay branch of stableBernoulliGraph.EachEdge: range over the rows *)
(* of g.list, and over the indices of each row.                            *)
(***************************************************************************)
RECURSIVE ReplayLoop(_, _, _, _, _)
ReplayLoop(list, u, v, stopAt, acc) ==
    IF u >= SliceLen(list)
    THEN [delivered |-> acc, terminated |-> FALSE]
    ELSE IF v >= SliceLen(list[u])
    THEN ReplayLoop(list, u + 1, 0, stopAt, acc)
    ELSE LET acc2 == Append(acc, <<u, v>>)
         IN  IF Terminate(stopAt, Len(acc2))
             THEN [delivered |-> acc2, terminated |-> TRUE]
             ELSE ReplayLoop(list, u, v + 1, stopAt, acc2)

(***************************************************************************)
(* The generators.  A generator is a record                                *)
(*   status    "none" (not constructed), "panicked", "stable", "unstable"  *)
(*   order, rho, directed, size, list     the fields of the Go struct      *)
(*   listNil   g.list == nil                                               *)
(*   src       the src argument of BernoulliDistribution                   *)
(*   ownSrc    the trial closure draws from its own source (src != nil)    *)
(*   rng       the state of that source                                    *)
(***************************************************************************)
NoGen ==
    [status |-> "none", order |-> 0, rho |-> [num |-> 0, den |-> 1],
     directed |-> FALSE, size |-> 0, listNil |-> TRUE, list |-> NilSlice,
     src |-> [nil |-> TRUE, state |-> 0], ownSrc |-> FALSE, rng |-> 0]

\* The first pass of stableBernoulliGraph.EachEdge (g.list == nil).
FirstPass(g, rng, stopAt) ==
    LET r == IF g.directed
             THEN bernoulliArcCreator(g.order, g.rho, rng, stopAt)
             ELSE bernoulliEdgeCreator(g.order, g.rho, rng, stopAt)
    IN  [g |-> [g EXCEPT !.listNil = FALSE,
                         !.list = RecordAll(MakeList(g.order), g.order, r.delivered, 1),
                         !.size = g.size + Len(r.delivered)],
         rng |-> r.rng, delivered |-> r.delivered, trials |-> r.trials,
         terminated |-> r.terminated]

\* An EachEdge without the g.list == nil test: every call generates afresh.
stableEachEdgeForgetful(g, rng, stopAt) == FirstPass(g, rng, stopAt)

\* The stable EachEdge: generate and record when g.list == nil, else replay.

stableEachEdgeRecounting(g, rng, stopAt) ==
    IF g.listNil
    THEN FirstPass(g, rng, stopAt)
    ELSE LET r == ReplayLoop(g.list, 0, 0, stopAt, <<>>)
         IN  [g |-> [g EXCEPT !.size = g.size + Len(r.delivered)], rng |-> rng,
              delivered |-> r.delivered, trials |-> 0, terminated |-> r.terminated]

stableEachEdge(g, rng, stopAt) ==
    IF g.listNil
    THEN FirstPass(g, rng, stopAt)
    ELSE LET r == ReplayLoop(g.list, 0, 0, stopAt, <<>>)
         IN  [g |-> g, rng |-> rng, delivered |-> r.delivered, trials |-> 0,
              terminated |-> r.terminated]

unstableEachEdge(g, rng, stopAt) ==
    LET r == IF g.directed
             THEN bernoulliArcCreator(g.order, g.rho, rng, stopAt)
             ELSE bernoulliEdgeCreator(g.order, g.rho, rng, stopAt)
    IN  [g |-> g, rng |-> r.rng, delivered |-> r.delivered, trials |-> r.trials,
         terminated |-> r.terminated]

\* stableBernoulliGraph.Size: a traversal with a step function that never
\* terminates, then g.size.
stableSize(g, rng) ==
    LET r == stableEachEdge(g, rng, 0)
    IN  [g |-> r.g, rng |-> r.rng, delivered |-> r.delivered, trials |-> r.trials,
         terminated |-> r.terminated, ret |-> r.g.size]

\* unstableBernoulliGraph.Size: int(float64(cs) * rho).
\* x * y on int: the low bits of the product, as a signed word. The word is
\* the int of a 32-bit build; a 64-bit build runs the same code on 64-bit words
\* and wraps in the same way from order 3037000500 on. The product is formed
\* from half-words so that no step leaves the word.
IntMul(x, y) ==
    LET bits == 32
        half == 2 ^ (bits \div 2)
        quarter == 2 ^ (bits \div 4)
        Word(z) == [hi |-> (z \div half) % half, lo |-> z % half]
        HalfMul(b, d) ==
            LET t1 == b * (d \div quarter)
                t0 == b * (d % quarter)
                l == (t1 % quarter) * quarter + t0
            IN  [hi |-> (t1 \div quarter + l \div half) % half, lo |-> l % half]
        IntOf(w) ==
            IF 2 * w.hi >= half THEN (w.hi - half) * half + w.lo
            ELSE w.hi * half + w.lo
        a == Word(x)
        b == Word(y)
        low == HalfMul(a.lo, b.lo)
    IN  IntOf([hi |-> (HalfMul(a.hi, b.lo).lo + HalfMul(a.lo, b.hi).lo + low.hi) % half,
               lo |-> low.lo])

\* A float64 in [0, 1) as a 53-bit significand in 14-bit limbs, lowest first,
\* and a binary exponent: the value is the significand over 2^e. The table
\* holds the doubles nearest to the decimal literals a caller writes for rho.
Float64Of(rho) ==
    CASE rho = [num |-> 0, den |-> 1] -> [m |-> <<0, 0, 0, 0>>, e |-> 53]
      [] rho = [num |-> 3, den |-> 10] -> [m |-> <<13107, 3276, 13107, 1228>>, e |-> 54]
      [] rho = [num |-> 1, den |-> 2] -> [m |-> <<0, 0, 0, 1024>>, e |-> 53]
      [] rho = [num |-> 7, den |-> 10] -> [m |-> <<9830, 6553, 9830, 1433>>, e |-> 53]
      [] rho = [num |-> 9, den |-> 10] -> [m |-> <<3277, 13107, 3276, 1843>>, e |-> 53]

\* int(float64(cs) * f). float64(cs) is exact. The exact product of the
\* magnitude of cs and the significand, p, is written in binary, lowest bit
\* first; the multiplication rounds it to 53 significant bits, ties to even,
\* and the conversion drops the fraction, toward zero. Rounding up reaches the
\* integer part when every kept bit of the fraction is a one.
Float64Size(cs, f) ==
    LET base == 2 ^ 14
        mag == IF cs >= 0 THEN cs ELSE -cs
        a0 == mag % base
        a1 == (mag \div base) % base
        a2 == mag \div (base * base)
        m == f.m
        c0 == a0 * m[1]
        c1 == a0 * m[2] + a1 * m[1] + c0 \div base
        c2 == a0 * m[3] + a1 * m[2] + a2 * m[1] + c1 \div base
        c3 == a0 * m[4] + a1 * m[3] + a2 * m[2] + c2 \div base
        c4 == a1 * m[4] + a2 * m[3] + c3 \div base
        c5 == a2 * m[4] + c4 \div base
        limbs == <<c0 % base, c1 % base, c2 % base, c3 % base, c4 % base, c5>>
        p == [i \in 1..84 |-> (limbs[(i - 1) \div 14 + 1] \div (2 ^ ((i - 1) % 14))) % 2]
        len == IF \A i \in 1..84 : p[i] = 0 THEN 0
               ELSE CHOOSE i \in 1..84 : p[i] = 1 /\ \A j \in (i + 1)..84 : p[j] = 0
        d == len - 53
        up == /\ d > 0
              /\ p[d] = 1
              /\ \/ \E i \in 1..(d - 1) : p[i] = 1
                 \/ p[d + 1] = 1
        carried == up /\ \A i \in (d + 1)..f.e : p[i] = 1
        RECURSIVE ValueFrom(_)
        ValueFrom(i) == IF i > 84 THEN 0 ELSE p[i] + 2 * ValueFrom(i + 1)
        whole == ValueFrom(f.e + 1) + (IF carried THEN 1 ELSE 0)
    IN  IF cs >= 0 THEN whole ELSE -whole

\* n(n-1) on int, halved by a division that truncates toward zero when
\* undirected, then int(float64(cs) * rho).
unstableSize(g) ==
    LET cs == IntMul(g.order, g.order - 1)
        halved == IF cs >= 0 THEN cs \div 2 ELSE -((-cs) \div 2)
    IN  Float64Size(IF g.directed THEN cs ELSE halved, Float64Of(g.rho))

\* An EachVertex whose loop test is i <= o.
vertexLoopOffByOne(order, stopAt) ==
    LET all == [i \in 1..(order + 1) |-> i - 1]
    IN  IF stopAt \in 1..(order + 1)
        THEN [delivered |-> SubSeq(all, 1, stopAt), terminated |-> TRUE]
        ELSE [delivered |-> all, terminated |-> FALSE]

\* EachVertex (the same code for both generators): f(0), f(1), ..., f(order-1),
\* returning when f returns true.
vertexLoop(order, stopAt) ==
    LET all == [i \in 1..order |-> i - 1]
    IN  IF stopAt \in 1..order
        THEN [delivered |-> SubSeq(all, 1, stopAt), terminated |-> TRUE]
        ELSE [delivered |-> all, terminated |-> FALSE]

(***************************************************************************)
(* The operations on generators.                                           *)
(***************************************************************************)
Sources ==
    {[nil |-> TRUE, state |-> 0]} \cup {[nil |-> FALSE, state |-> s] : s \in Seeds}

\* A check that lets rho = 1.0 through.
RhoOutOfRangeLax(rho) == rho.num < 0 \/ rho.num > rho.den

\* rho < 0.0 || rho >= 1.0
RhoOutOfRange(rho) == rho.num < 0 \/ rho.num >= rho.den

\* The state of the source the trial closure of g draws from.
SourceOf(g) == IF g.ownSrc THEN g.rng ELSE globalRand

Entry(op, stopAt, delivered, terminated, trials, mat, ret) ==
    [op |-> op, stopAt |-> stopAt, delivered |-> delivered,
     terminated |-> terminated, trials |-> trials, mat |-> mat, ret |-> ret]

\* A constructor whose trial closure always draws from the global source.
BernoulliDistributionGlobalOnly(i, n, rho, directed, stable, src) ==
    /\ gen[i].status = "none"
    /\ IF RhoOutOfRange(rho)
       THEN gen' = [gen EXCEPT ![i] = [NoGen EXCEPT !.status = "panicked", !.rho = rho]]
       ELSE gen' = [gen EXCEPT ![i] =
                        [status |-> IF stable THEN "stable" ELSE "unstable",
                         order |-> n, rho |-> rho, directed |-> directed, size |-> 0,
                         listNil |-> TRUE, list |-> NilSlice, src |-> src,
                         ownSrc |-> FALSE, rng |-> src.state]]
    /\ UNCHANGED <<globalRand, log, builderVars, otherVars>>

\* BernoulliDistribution: panic on a rho outside [0, 1), else return a generator
\* whose trial closure draws from src, or from the global source when src is nil.
BernoulliDistribution(i, n, rho, directed, stable, src) ==
    /\ gen[i].status = "none"
    /\ IF RhoOutOfRange(rho)
       THEN gen' = [gen EXCEPT ![i] = [NoGen EXCEPT !.status = "panicked", !.rho = rho]]
       ELSE gen' = [gen EXCEPT ![i] =
                        [status |-> IF stable THEN "stable" ELSE "unstable",
                         order |-> n, rho |-> rho, directed |-> directed, size |-> 0,
                         listNil |-> TRUE, list |-> NilSlice, src |-> src,
                         ownSrc |-> ~src.nil, rng |-> src.state]]
    /\ UNCHANGED <<globalRand, log, builderVars, otherVars>>

\* Generator i was returned and fewer than limit calls were made on it.
Live(i, limit) == gen[i].status \in {"stable", "unstable"} /\ Len(log[i]) < limit

\* The effect of a call on generator i that left the generator as g, the source
\* it draws from in state rng, and is recorded as entry e.
Commit(i, g, rng, e) ==
    /\ gen' = [gen EXCEPT ![i] = IF g.ownSrc THEN [g EXCEPT !.rng = rng] ELSE g]
    /\ globalRand' = IF g.ownSrc THEN globalRand ELSE rng
    /\ log' = [log EXCEPT ![i] = Append(@, e)]
    /\ UNCHANGED <<builderVars, otherVars>>

EachVertex(i, stopAt, limit) ==
    /\ Live(i, limit)
    /\ LET r == vertexLoop(gen[i].order, stopAt)
       IN  Commit(i, gen[i], SourceOf(gen[i]),
                  Entry("EachVertex", stopAt, r.delivered, r.terminated, 0,
                        ~gen[i].listNil, 0))

EachEdge(i, stopAt, limit) ==
    /\ Live(i, limit)
    /\ LET g == gen[i]
           r == IF g.status = "stable"
                THEN stableEachEdge(g, SourceOf(g), stopAt)
                ELSE unstableEachEdge(g, SourceOf(g), stopAt)
       IN  Commit(i, r.g, r.rng,
                  Entry("EachEdge", stopAt, r.delivered, r.terminated, r.trials,
                        ~g.listNil, 0))

Order(i, limit) ==
    /\ Live(i, limit)
    /\ Commit(i, gen[i], SourceOf(gen[i]),
              Entry("Order", 0, <<>>, FALSE, 0, ~gen[i].listNil, gen[i].order))

Size(i, limit) ==
    /\ Live(i, limit)
    /\ LET g == gen[i]
       IN  IF g.status = "stable"
           THEN LET r == stableSize(g, SourceOf(g))
                IN  Commit(i, r.g, r.rng,
                           Entry("Size", 0, r.delivered, r.terminated, r.trials,
                                 ~g.listNil, r.ret))
           ELSE Commit(i, g, SourceOf(g),
                       Entry("Size", 0, <<>>, FALSE, 0, ~g.listNil, unstableSize(g)))

(***************************************************************************)
(* The graph specification builder.  GraphProperties is a uint16 bitfield; *)
(* x | m and x &^ m are computed bit by bit.                               *)
(***************************************************************************)
Bit(x, i) == (x \div (2 ^ i)) % 2

RECURSIVE OrFrom(_, _, _)
OrFrom(x, m, i) ==
    IF i > 15 THEN 0
    ELSE (IF Bit(x, i) = 1 \/ Bit(m, i) = 1 THEN 2 ^ i ELSE 0) + OrFrom(x, m, i + 1)

RECURSIVE AndNotFrom(_, _, _)
AndNotFrom(x, m, i) ==
    IF i > 15 THEN 0
    ELSE (IF Bit(x, i) = 1 /\ Bit(m, i) = 0 THEN 2 ^ i ELSE 0) + AndNotFrom(x, m, i + 1)

RECURSIVE AndFrom(_, _, _)
AndFrom(x, m, i) ==
    IF i > 15 THEN 0
    ELSE (IF Bit(x, i) = 1 /\ Bit(m, i) = 1 THEN 2 ^ i ELSE 0) + AndFrom(x, m, i + 1)

\* x | m
Or(x, m) == OrFrom(x, m, 0)

\* x &^ m
AndNot(x, m) == AndNotFrom(x, m, 0)

\* x & m
And(x, m) == AndFrom(x, m, 0)

G_UNDIRECTED == 1

G_DIRECTED == 2

G_BASIC == 4

G_LABELED == 8

G_WEIGHTED == 16

G_DATA == 32

G_SIMPLE == 64

G_LOOPS == 128

G_PARALLEL == 256

G_IMMUTABLE == 512

G_MUTABLE == 1024

\* 1<<iota | G_MUTABLE, in the twelfth line of the const block (iota = 11)
G_PERSISTENT == Or(2 ^ 11, G_MUTABLE)

\* The graph sources a spec may name; "nil" is the nil interface value.
GraphSources == {"nil", "g1", "g2"}

GraphSpec(props, source) == [Props |-> props, Source |-> source]

\* A default spec with the directedness flag only.
DefaultSpecUndirectedOnly == GraphSpec(G_UNDIRECTED, "nil")

\* Spec(): the default spec.
DefaultSpec ==
    GraphSpec(Or(Or(Or(G_UNDIRECTED, G_SIMPLE), G_BASIC), G_MUTABLE), "nil")

Using(b, g) == [b EXCEPT !.Source = g]

Undirected(b) == [b EXCEPT !.Props = Or(AndNot(b.Props, G_DIRECTED), G_UNDIRECTED)]

\* A Directed that sets its flag and clears nothing.
DirectedKeeping(b) == [b EXCEPT !.Props = Or(b.Props, G_DIRECTED)]

Directed(b) == [b EXCEPT !.Props = Or(AndNot(b.Props, G_UNDIRECTED), G_DIRECTED)]

Basic(b) ==
    [b EXCEPT !.Props = Or(AndNot(b.Props, Or(Or(G_LABELED, G_WEIGHTED), G_DATA)),
                           G_BASIC)]

LabeledKeepingBasic(b) == [b EXCEPT !.Props = Or(b.Props, G_LABELED)]

Labeled(b) == [b EXCEPT !.Props = Or(AndNot(b.Props, G_BASIC), G_LABELED)]

Weighted(b) == [b EXCEPT !.Props = Or(AndNot(b.Props, G_BASIC), G_WEIGHTED)]

DataEdges(b) == [b EXCEPT !.Props = Or(AndNot(b.Props, G_BASIC), G_DATA)]

SimpleGraphKeepingParallel(b) ==
    [b EXCEPT !.Props = Or(AndNot(b.Props, G_LOOPS), G_SIMPLE)]

SimpleGraph(b) ==
    [b EXCEPT !.Props = Or(AndNot(b.Props, Or(G_LOOPS, G_PARALLEL)), G_SIMPLE)]

\* A MultiGraph that clears G_SIMPLE only.
MultiGraphKeepingLoops(b) ==
    [b EXCEPT !.Props = Or(AndNot(b.Props, G_SIMPLE), G_PARALLEL)]

MultiGraph(b) ==
    [b EXCEPT !.Props = Or(AndNot(b.Props, Or(G_SIMPLE, G_LOOPS)), G_PARALLEL)]

PseudoGraph(b) ==
    [b EXCEPT !.Props = Or(AndNot(b.Props, G_SIMPLE), Or(G_LOOPS, G_PARALLEL))]

Parallel(b) == [b EXCEPT !.Props = Or(AndNot(b.Props, G_SIMPLE), G_PARALLEL)]

\* x ^ m.
Xor(x, m) == Or(AndNot(x, m), AndNot(m, x))

\* Loop() with ^= in place of |=.
LoopToggling(b) == [b EXCEPT !.Props = Xor(AndNot(b.Props, G_SIMPLE), G_LOOPS)]

Loop(b) == [b EXCEPT !.Props = Or(AndNot(b.Props, G_SIMPLE), G_LOOPS)]

Mutable(b) ==
    [b EXCEPT !.Props = Or(AndNot(b.Props, Or(G_IMMUTABLE, G_PERSISTENT)), G_MUTABLE)]

\* Immutable() with = in place of |=.
ImmutableResetting(b) == [b EXCEPT !.Props = G_IMMUTABLE]

Immutable(b) ==
    [b EXCEPT !.Props = Or(AndNot(b.Props, Or(G_PERSISTENT, G_MUTABLE)), G_IMMUTABLE)]

\* The property methods, by the axis they belong to.
DirectednessMethods == {"Undirected", "Directed"}

RichnessMethods == {"Basic", "Labeled", "Weighted", "DataEdges"}

MultiplicityMethods == {"SimpleGraph", "MultiGraph", "PseudoGraph", "Parallel", "Loop"}

MutabilityMethods == {"Mutable", "Immutable"}

PropertyMethods ==
    DirectednessMethods \cup RichnessMethods \cup MultiplicityMethods
        \cup MutabilityMethods

\* A call of a builder method: its name and, for Using, its argument.
BuilderCalls ==
    {[name |-> m, arg |-> "nil"] : m \in PropertyMethods}
        \cup {[name |-> "Using", arg |-> g] : g \in GraphSources}

\* The spec returned by call c on receiver b.
Apply(c, b) ==
    CASE c.name = "Using" -> Using(b, c.arg)
      [] c.name = "Undirected" -> Undirected(b)
      [] c.name = "Directed" -> Directed(b)
      [] c.name = "Basic" -> Basic(b)
      [] c.name = "Labeled" -> Labeled(b)
      [] c.name = "Weighted" -> Weighted(b)
      [] c.name = "DataEdges" -> DataEdges(b)
      [] c.name = "SimpleGraph" -> SimpleGraph(b)
      [] c.name = "MultiGraph" -> MultiGraph(b)
      [] c.name = "PseudoGraph" -> PseudoGraph(b)
      [] c.name = "Parallel" -> Parallel(b)
      [] c.name = "Loop" -> Loop(b)
      [] c.name = "Mutable" -> Mutable(b)
      [] c.name = "Immutable" -> Immutable(b)

\* A builder method is called on the current spec and its result becomes the
\* current spec: call is the last call and recv its receiver.
Call(c) ==
    /\ cur' = Apply(c, cur)
    /\ recv' = cur
    /\ call' = c
    /\ UNCHANGED <<bernVars, otherVars>>

(***************************************************************************)
(* The builder of src/unnamed/part_000: an earlier GraphSpec of the same   *)
(* package, whose methods only add their flag (BasicEdges and SimpleGraph  *)
(* only clear). It names the multiplicity flag G_MULTI, which no file      *)
(* under src defines; it is taken to be the flag builder.go calls          *)
(* G_PARALLEL.                                                             *)
(***************************************************************************)
G_MULTI == G_PARALLEL

BuildGraph == GraphSpec(G_UNDIRECTED, "nil")

UndirectedOld(b) == GraphSpec(Or(b.Props, G_UNDIRECTED), b.Source)

DirectedOld(b) == GraphSpec(Or(b.Props, G_DIRECTED), b.Source)

BasicEdges(b) ==
    GraphSpec(AndNot(b.Props, Or(Or(G_LABELED, G_WEIGHTED), G_DATA)), b.Source)

LabeledEdges(b) == GraphSpec(Or(b.Props, G_LABELED), b.Source)

WeightedEdges(b) == GraphSpec(Or(b.Props, G_WEIGHTED), b.Source)

DataEdgesOld(b) == GraphSpec(Or(b.Props, G_DATA), b.Source)

SimpleGraphOld(b) == GraphSpec(AndNot(b.Props, Or(G_LOOPS, G_MULTI)), b.Source)

MultiGraphOld(b) == GraphSpec(Or(b.Props, G_MULTI), b.Source)

Loops(b) == GraphSpec(Or(b.Props, G_LOOPS), b.Source)

OldPropertyMethods ==
    {"Undirected", "Directed", "BasicEdges", "LabeledEdges", "WeightedEdges",
     "DataEdges", "SimpleGraph", "MultiGraph", "Loops"}

OldBuilderCalls ==
    [name : OldPropertyMethods, arg : {"nil"}]
        \cup [name : {"Using"}, arg : GraphSources]

ApplyOld(c, b) ==
    CASE c.name = "Using" -> Using(b, c.arg)
      [] c.name = "Undirected" -> UndirectedOld(b)
      [] c.name = "Directed" -> DirectedOld(b)
      [] c.name = "BasicEdges" -> BasicEdges(b)
      [] c.name = "LabeledEdges" -> LabeledEdges(b)
      [] c.name = "WeightedEdges" -> WeightedEdges(b)
      [] c.name = "DataEdges" -> DataEdgesOld(b)
      [] c.name = "SimpleGraph" -> SimpleGraphOld(b)
      [] c.name = "MultiGraph" -> MultiGraphOld(b)
      [] c.name = "Loops" -> Loops(b)

\* A method of the earlier builder is called on the current spec.
CallOld(c) ==
    /\ cur' = ApplyOld(c, cur)
    /\ recv' = cur
    /\ call' = c
    /\ UNCHANGED <<bernVars, otherVars>>

(***************************************************************************)
(* Branching. br.store holds the GraphSpec variables of a caller; a call   *)
(* d = h.m() evaluates m on the variable h and assigns the result to the   *)
(* variable d. The receiver of every method is declared (b GraphSpec): the *)
(* method works on a copy of the caller's variable. br.before is the store *)
(* before the last call, br.base the spec both variables started from.     *)
(***************************************************************************)
Handles == {1, 2}

\* d = h.m() with a pointer receiver: m writes through to the variable h.
MethodCallByPointer(store, h, c, d) ==
    [k \in Handles |-> IF k \in {h, d} THEN Apply(c, store[h]) ELSE store[k]]

\* d = h.m(): b is a copy of store[h], the method assigns to b and returns b.
MethodCall(store, h, c, d) ==
    LET b == store[h]
    IN  [store EXCEPT ![d] = Apply(c, b)]

\* What a creator function does to the GraphSpec it is handed.
FactoryEdits ==
    {[name |-> "Using", arg |-> "g2"], [name |-> "Immutable", arg |-> "nil"]}

\* h.Create(f): f is called with a copy of store[h]; made is that copy once f
\* has assigned to it.
CreateCall(store, h, f) ==
    LET b == store[h]
    IN  [store |-> store, made |-> Apply(f, b)]

NoSpec == GraphSpec(0, "none")

Branch(base, store, before, recvH, dst, op, n, made) ==
    [base |-> base, store |-> store, before |-> before, recvH |-> recvH,
     dst |-> dst, op |-> op, n |-> n, made |-> made]

\* Two variables that hold the same spec and no call on them yet.
Unbranched(s) ==
    Branch(s, [h \in Handles |-> s], [h \in Handles |-> s], 0, 0,
           [name |-> "Spec", arg |-> "nil"], 0, NoSpec)

\* Specs a chain of builder methods has partially built.
PartlyBuilt ==
    {DefaultSpec, Using(Weighted(Directed(DefaultSpec)), "g1")}

CallOn(h, c, d, limit) ==
    /\ br.n < limit
    /\ br' = Branch(br.base, MethodCall(br.store, h, c, d), br.store, h, d, c,
                    br.n + 1, NoSpec)
    /\ UNCHANGED <<bernVars, builderVars, nq, mg>>

CreateOn(h, f, limit) ==
    /\ br.n < limit
    /\ LET r == CreateCall(br.store, h, f)
       IN  br' = Branch(br.base, r.store, br.store, h, 0,
                       [name |-> "Create", arg |-> f.name], br.n + 1, r.made)
    /\ UNCHANGED <<bernVars, builderVars, nq, mg>>

(***************************************************************************)
(* The null graph. A vertex is one of Vertexes, a label (or a weight, or   *)
(* the data of an edge) one of Properties; a float64 is a pair of a        *)
(* numerator and a denominator, NaN being 0/0. nq is the last query made   *)
(* of the null graph: the number of times its callback was invoked and     *)
(* what the query returned.                                                *)
(***************************************************************************)
Vertexes == {1, 2, 3}

Properties == {"foo", "bar"}

NaN == [num |-> 0, den |-> 0]

NullGraph == "NullGraph"

\* The enumerations: the number of invocations of the callback f.
nullVertices(g, stopAt) == 0

nullEdges(g, stopAt) == 0

nullArcs(g, stopAt) == 0

nullIncidentTo(g, v, stopAt) == 0

nullArcsFrom(g, v, stopAt) == 0

nullPredecessorsOf(g, v, stopAt) == 0

nullArcsTo(g, v, stopAt) == 0

nullSuccessorsOf(g, v, stopAt) == 0

nullAdjacentTo(g, v, stopAt) == 0

nullHasVertex(g, v) == FALSE

nullInDegreeOf(g, v) == <<0, FALSE>>

nullOutDegreeOf(g, v) == <<0, FALSE>>

nullDegreeOf(g, v) == <<0, FALSE>>

nullHasEdge(g, e) == FALSE

nullHasArc(g, e) == FALSE

nullHasWeightedEdge(g, e) == FALSE

nullHasLabeledEdge(g, e) == FALSE

nullHasDataEdge(g, e) == FALSE

\* Density() returning 0.
nullDensityZero(g) == [num |-> 0, den |-> 1]

nullDensity(g) == NaN

nullTranspose(g) == g

\* Order(g) and Size(g) count the vertices and the edges the graph enumerates
\* to a callback that never asks to terminate.
nullOrder(g) == nullVertices(g, 0)

nullSize(g) == nullEdges(g, 0)

Enumerations == {"Vertices", "Edges", "Arcs"}

EnumerationsAt ==
    {"IncidentTo", "ArcsFrom", "PredecessorsOf", "ArcsTo", "SuccessorsOf",
     "AdjacentTo"}

DegreeQueries == {"InDegreeOf", "OutDegreeOf", "DegreeOf"}

PairQueries == {"HasEdge", "HasArc"}

RichQueries == {"HasWeightedEdge", "HasLabeledEdge", "HasDataEdge"}

HasQueries == {"HasVertex"} \cup PairQueries \cup RichQueries

Counts == {"Order", "Size"}

\* A query with its arguments: the vertex u (or the edge from u to v, with the
\* property x) and the callback.
Query(q, u, v, x, stopAt) == [q |-> q, u |-> u, v |-> v, x |-> x, stopAt |-> stopAt]

NullQueries ==
    {Query(q, 0, 0, "", stopAt) : q \in Enumerations, stopAt \in Stops}
        \cup {Query(a[1], a[2], 0, "", a[3]) :
                  a \in EnumerationsAt \X Vertexes \X Stops}
        \cup {Query(a[1], a[2], 0, "", 0) :
                  a \in ({"HasVertex"} \cup DegreeQueries) \X Vertexes}
        \cup {Query(a[1], a[2], a[3], "", 0) :
                  a \in PairQueries \X Vertexes \X Vertexes}
        \cup {Query(a[1], a[2], a[3], a[4], 0) :
                  a \in RichQueries \X Vertexes \X Vertexes \X Properties}
        \cup {Query(q, 0, 0, "", 0) : q \in Counts \cup {"Density", "Transpose"}}

\* The result of a query of the null graph: calls of the callback, and the
\* value returned (none for an enumeration).
nullAnswer(g, c) ==
    LET e == <<c.u, c.v, c.x>>
        Ret(r) == [calls |-> 0, ret |-> r]
        Enum(n) == [calls |-> n, ret |-> "none"]
    IN  CASE c.q = "Vertices" -> Enum(nullVertices(g, c.stopAt))
          [] c.q = "Edges" -> Enum(nullEdges(g, c.stopAt))
          [] c.q = "Arcs" -> Enum(nullArcs(g, c.stopAt))
          [] c.q = "IncidentTo" -> Enum(nullIncidentTo(g, c.u, c.stopAt))
          [] c.q = "ArcsFrom" -> Enum(nullArcsFrom(g, c.u, c.stopAt))
          [] c.q = "PredecessorsOf" -> Enum(nullPredecessorsOf(g, c.u, c.stopAt))
          [] c.q = "ArcsTo" -> Enum(nullArcsTo(g, c.u, c.stopAt))
          [] c.q = "SuccessorsOf" -> Enum(nullSuccessorsOf(g, c.u, c.stopAt))
          [] c.q = "AdjacentTo" -> Enum(nullAdjacentTo(g, c.u, c.stopAt))
          [] c.q = "HasVertex" -> Ret(nullHasVertex(g, c.u))
          [] c.q = "InDegreeOf" -> Ret(nullInDegreeOf(g, c.u))
          [] c.q = "OutDegreeOf" -> Ret(nullOutDegreeOf(g, c.u))
          [] c.q = "DegreeOf" -> Ret(nullDegreeOf(g, c.u))
          [] c.q = "HasEdge" -> Ret(nullHasEdge(g, e))
          [] c.q = "HasArc" -> Ret(nullHasArc(g, e))
          [] c.q = "HasWeightedEdge" -> Ret(nullHasWeightedEdge(g, e))
          [] c.q = "HasLabeledEdge" -> Ret(nullHasLabeledEdge(g, e))
          [] c.q = "HasDataEdge" -> Ret(nullHasDataEdge(g, e))
          [] c.q = "Density" -> Ret(nullDensity(g))
          [] c.q = "Transpose" -> Ret(nullTranspose(g))
          [] c.q = "Order" -> Ret(nullOrder(g))
          [] c.q = "Size" -> Ret(nullSize(g))

NoQuery == [c |-> Query("none", 0, 0, "", 0), calls |-> 0, ret |-> "none"]

\* A query is made of the null graph.
NullQuery(c) ==
    /\ nq' = [c |-> c, calls |-> nullAnswer(NullGraph, c).calls,
              ret |-> nullAnswer(NullGraph, c).ret]
    /\ UNCHANGED <<bernVars, builderVars, br, mg>>

(***************************************************************************)
(* Mutable labeled graphs. The suites of src/spec/suite_label.go exercise  *)
(* graphs made by a Factory; no file under src implements one, so the      *)
(* graph is the one the specification describes: a simple graph that holds *)
(* the edges added and not removed, each with the label it was added with, *)
(* whose vertices are the endpoints of its edges. An undirected graph      *)
(* answers for an edge in either orientation, a directed one only in the   *)
(* orientation added. The operations are total: none fails.                *)
(*                                                                         *)
(* mg.g is the graph, mg.prev the graph before the last call of a mutator, *)
(* mg.op that call, and mg.obs the last assertion a suite made of the      *)
(* graph: the value the suite expects and the value the graph gives.       *)
(***************************************************************************)
LabeledEdge(u, v, x) == [u |-> u, v |-> v, x |-> x]

Graph(directed, edges) == [directed |-> directed, edges |-> edges]

\* s.Factory(NullGraph): a graph with nothing in it.
Factory(directed) == Graph(directed, {})

\* The edges of g from x to y, in that orientation only.
BetweenOriented(g, x, y) == {e \in g.edges : e.u = x /\ e.v = y}

\* The edges of g that join x to y.
Between(g, x, y) ==
    {e \in g.edges : \/ e.u = x /\ e.v = y
                     \/ ~g.directed /\ e.u = y /\ e.v = x}

HasEdge(g, x, y) == Between(g, x, y) # {}

HasLabeledEdge(g, x, y, l) == \E e \in Between(g, x, y) : e.x = l

HasArc(g, x, y) == HasEdge(g, x, y)

HasLabeledArc(g, x, y, l) == HasLabeledEdge(g, x, y, l)

OrderOf(g) == Cardinality({e.u : e \in g.edges} \cup {e.v : e \in g.edges})

SizeOf(g) == Cardinality(g.edges)

\* Adding an edge the graph already has between the two vertices changes
\* nothing.
addOne(g, e) ==
    IF HasEdge(g, e.u, e.v) THEN g ELSE Graph(g.directed, g.edges \cup {e})

removeOne(g, e) == Graph(g.directed, g.edges \ Between(g, e.u, e.v))

RECURSIVE addAll(_, _)
addAll(g, es) ==
    IF es = <<>> THEN g ELSE addAll(addOne(g, Head(es)), Tail(es))

\* A removal that takes no arguments to mean every edge.
RECURSIVE removeAllOrEverything(_, _)
removeAllOrEverything(g, es) ==
    IF es = <<>> THEN Graph(g.directed, {})
    ELSE IF Len(es) = 1 THEN removeOne(g, Head(es))
    ELSE removeAllOrEverything(removeOne(g, Head(es)), Tail(es))

\* A removal that stops before its last argument.
RECURSIVE removeAllButLast(_, _)
removeAllButLast(g, es) ==
    IF Len(es) <= 1 THEN g
    ELSE removeAllButLast(removeOne(g, Head(es)), Tail(es))

RECURSIVE removeAll(_, _)
removeAll(g, es) ==
    IF es = <<>> THEN g ELSE removeAll(removeOne(g, Head(es)), Tail(es))

\* The argument lists of the mutators: none, one edge, or two edges that
\* share a vertex as in the suites.
EdgeLists ==
    {<<>>}
        \cup {<<LabeledEdge(a[1], a[2], a[3])>> :
                  a \in {b \in Vertexes \X Vertexes \X Properties : b[1] # b[2]}}
        \cup {<<LabeledEdge(a[1], a[2], "foo"), LabeledEdge(a[2], a[3], "bar")>> :
                  a \in {b \in Vertexes \X Vertexes \X Vertexes :
                             Cardinality({b[1], b[2], b[3]}) = 3}}

NoObs == [test |-> "none", line |-> 0, expected |-> FALSE, actual |-> FALSE]

Mutated(g, prev, name, es) ==
    [g |-> g, prev |-> prev, op |-> [name |-> name, es |-> es], obs |-> NoObs]

Fresh(directed) == Mutated(Factory(directed), Factory(directed), "Factory", <<>>)

AddEdges(es, limit) ==
    /\ ~mg.g.directed
    /\ SizeOf(addAll(mg.g, es)) <= limit
    /\ mg' = Mutated(addAll(mg.g, es), mg.g, "AddEdges", es)
    /\ UNCHANGED <<bernVars, builderVars, br, nq>>

RemoveEdges(es) ==
    /\ ~mg.g.directed
    /\ mg' = Mutated(removeAll(mg.g, es), mg.g, "RemoveEdges", es)
    /\ UNCHANGED <<bernVars, builderVars, br, nq>>

AddArcs(es, limit) ==
    /\ mg.g.directed
    /\ SizeOf(addAll(mg.g, es)) <= limit
    /\ mg' = Mutated(addAll(mg.g, es), mg.g, "AddArcs", es)
    /\ UNCHANGED <<bernVars, builderVars, br, nq>>

RemoveArcs(es) ==
    /\ mg.g.directed
    /\ mg' = Mutated(removeAll(mg.g, es), mg.g, "RemoveArcs", es)
    /\ UNCHANGED <<bernVars, builderVars, br, nq>>

(***************************************************************************)
(* The mutator suites. A test makes a graph with Factory(NullGraph), adds  *)
(* its edges, checks, removes the same edges and checks again. An        *)
(* assertion is <<line, stage, query, u, v, label, expected value>>, the   *)
(* stage being the mutator call it follows.                                *)
(***************************************************************************)
OneEdge == <<LabeledEdge(1, 2, "foo")>>

TwoEdges == <<LabeledEdge(1, 2, "foo"), LabeledEdge(2, 3, "bar")>>

EdgeSuite_TestGracefulEmptyVariadics ==
    {<<90, "add", "Order", 0, 0, "", 0>>,
     <<91, "add", "Size", 0, 0, "", 0>>,
     <<94, "remove", "Order", 0, 0, "", 0>>,
     <<95, "remove", "Size", 0, 0, "", 0>>}

TestAddRemoveHasEdge ==
    {<<103, "add", "HasEdge", 1, 2, "", TRUE>>,
     <<104, "add", "HasEdge", 2, 1, "", TRUE>>,
     <<106, "add", "HasLabeledEdge", 1, 2, "foo", TRUE>>,
     <<107, "add", "HasLabeledEdge", 1, 2, "baz", FALSE>>,
     <<108, "add", "HasLabeledEdge", 2, 1, "foo", TRUE>>,
     <<109, "add", "HasLabeledEdge", 2, 1, "qux", FALSE>>,
     <<113, "remove", "HasEdge", 1, 2, "", FALSE>>,
     <<114, "remove", "HasLabeledEdge", 1, 2, "foo", FALSE>>}

TestMultiAddRemoveHasEdge ==
    {<<125, "add", "HasEdge", 1, 2, "", TRUE>>,
     <<126, "add", "HasEdge", 2, 3, "", TRUE>>,
     <<127, "add", "HasEdge", 2, 1, "", TRUE>>,
     <<128, "add", "HasEdge", 3, 2, "", TRUE>>,
     <<131, "add", "HasLabeledEdge", 1, 2, "foo", TRUE>>,
     <<132, "add", "HasLabeledEdge", 1, 2, "baz", FALSE>>,
     <<133, "add", "HasLabeledEdge", 2, 1, "foo", TRUE>>,
     <<134, "add", "HasLabeledEdge", 2, 1, "baz", FALSE>>,
     <<135, "add", "HasLabeledEdge", 2, 3, "bar", TRUE>>,
     <<136, "add", "HasLabeledEdge", 2, 3, "qux", FALSE>>,
     <<137, "add", "HasLabeledEdge", 3, 2, "bar", TRUE>>,
     <<138, "add", "HasLabeledEdge", 3, 2, "qux", FALSE>>,
     <<142, "remove", "HasLabeledEdge", 1, 2, "foo", FALSE>>,
     <<143, "remove", "HasLabeledEdge", 2, 3, "bar", FALSE>>,
     <<144, "remove", "HasEdge", 1, 2, "", FALSE>>,
     <<145, "remove", "HasEdge", 2, 3, "", FALSE>>}

ArcSuite_TestGracefulEmptyVariadics ==
    {<<163, "add", "Order", 0, 0, "", 0>>,
     <<164, "add", "Size", 0, 0, "", 0>>,
     <<167, "remove", "Order", 0, 0, "", 0>>,
     <<168, "remove", "Size", 0, 0, "", 0>>}

TestAddRemoveHasArc ==
    {<<176, "add", "HasArc", 1, 2, "", TRUE>>,
     <<177, "add", "HasArc", 2, 1, "", TRUE>>,
     <<179, "add", "HasLabeledArc", 1, 2, "foo", TRUE>>,
     <<180, "add", "HasLabeledArc", 1, 2, "bar", FALSE>>,
     <<181, "add", "HasLabeledArc", 2, 1, "foo", TRUE>>,
     <<182, "add", "HasLabeledArc", 2, 1, "baz", FALSE>>,
     <<186, "remove", "HasArc", 1, 2, "", FALSE>>,
     <<187, "remove", "HasLabeledArc", 1, 2, "foo", FALSE>>}

TestMultiAddRemoveHasArc ==
    {<<198, "add", "HasArc", 1, 2, "", TRUE>>,
     <<199, "add", "HasArc", 2, 3, "", TRUE>>,
     <<200, "add", "HasArc", 2, 1, "", FALSE>>,
     <<201, "add", "HasArc", 3, 2, "", FALSE>>,
     <<204, "add", "HasLabeledArc", 1, 2, "foo", TRUE>>,
     <<205, "add", "HasLabeledArc", 1, 2, "baz", FALSE>>,
     <<206, "add", "HasLabeledArc", 2, 1, "foo", TRUE>>,
     <<207, "add", "HasLabeledArc", 2, 1, "baz", FALSE>>,
     <<208, "add", "HasLabeledArc", 2, 3, "bar", TRUE>>,
     <<209, "add", "HasLabeledArc", 2, 3, "qux", FALSE>>,
     <<210, "add", "HasLabeledArc", 3, 2, "bar", TRUE>>,
     <<211, "add", "HasLabeledArc", 3, 2, "qux", FALSE>>,
     <<215, "remove", "HasLabeledArc", 1, 2, "foo", FALSE>>,
     <<216, "remove", "HasLabeledArc", 2, 3, "bar", FALSE>>,
     <<217, "remove", "HasArc", 1, 2, "", FALSE>>,
     <<218, "remove", "HasArc", 2, 3, "", FALSE>>}

Test(name, directed, es, checks) ==
    [name |-> name, directed |-> directed, es |-> es, checks |-> checks]

EdgeSuite ==
    {Test("TestGracefulEmptyVariadics", FALSE, <<>>,
          EdgeSuite_TestGracefulEmptyVariadics),
     Test("TestAddRemoveHasEdge", FALSE, OneEdge, TestAddRemoveHasEdge),
     Test("TestMultiAddRemoveHasEdge", FALSE, TwoEdges, TestMultiAddRemoveHasEdge)}

ArcSuite ==
    {Test("TestGracefulEmptyVariadics", TRUE, <<>>,
          ArcSuite_TestGracefulEmptyVariadics),
     Test("TestAddRemoveHasArc", TRUE, OneEdge, TestAddRemoveHasArc),
     Test("TestMultiAddRemoveHasArc", TRUE, TwoEdges, TestMultiAddRemoveHasArc)}

\* The test t has just made the mutator call of the stage.
AtStage(t, stage) ==
    /\ mg.g.directed = t.directed
    /\ mg.op.es = t.es
    /\ IF stage = "add"
       THEN /\ mg.op.name \in {"AddEdges", "AddArcs"}
            /\ mg.prev = Factory(t.directed)
       ELSE /\ mg.op.name \in {"RemoveEdges", "RemoveArcs"}
            /\ mg.prev = addAll(Factory(t.directed), t.es)

\* What the graph answers to the query of an assertion.
Answer(g, a) ==
    CASE a[3] = "HasEdge" -> HasEdge(g, a[4], a[5])
      [] a[3] = "HasArc" -> HasArc(g, a[4], a[5])
      [] a[3] = "HasLabeledEdge" -> HasLabeledEdge(g, a[4], a[5], a[6])
      [] a[3] = "HasLabeledArc" -> HasLabeledArc(g, a[4], a[5], a[6])
      [] a[3] = "Order" -> OrderOf(g)
      [] a[3] = "Size" -> SizeOf(g)

\* The assertion at the line a[1] of the test t: the query is made and its
\* value compared with the expected one.
Expect(t, a) ==
    /\ AtStage(t, a[2])
    /\ mg' = [mg EXCEPT !.obs = [test |-> t.name, line |-> a[1],
                                 expected |-> a[7], actual |-> Answer(mg.g, a)]]
    /\ UNCHANGED <<bernVars, builderVars, br, nq>>

(***************************************************************************)
(* Density. TestDensity makes a digraph with NewDirected(), whose vertices *)
(* are strings and whose edges carry no label, and compares Density()      *)
(* with a float64 after each AddEdges. A float64 that is the quotient of   *)
(* two small integers is the pair of them; two such quotients are the same *)
(* float64 exactly when they are the same number.                          *)
(***************************************************************************)
BaseEdge(u, v) == LabeledEdge(u, v, "")

\* The most edges a simple graph of n vertices can hold.
maxEdges(n, directed) ==
    IF directed THEN n * (n - 1) ELSE (n * (n - 1)) \div 2

Density(g) ==
    IF OrderOf(g) < 2 THEN NaN
    ELSE [num |-> SizeOf(g), den |-> maxEdges(OrderOf(g), g.directed)]

\* math.IsNaN(x).
IsNaN(x) == x.den = 0

\* x == y of two float64 (NaN equals nothing).
SameFloat(x, y) ==
    /\ ~IsNaN(x)
    /\ ~IsNaN(y)
    /\ x.num * y.den = y.num * x.den

DensityLists ==
    LET vertexes == {"foo", "bar", "baz", "qux"}
    IN  {<<BaseEdge(a[1], a[2])>> : a \in {b \in vertexes \X vertexes : b[1] # b[2]}}

\* The checks of TestDensity: <<line, the edges the digraph holds, expected
\* value>>; the first expects NaN, the others a number.
TestDensity ==
    {<<326, {}, NaN>>,
     <<333, {BaseEdge("foo", "bar")}, [num |-> 1, den |-> 1]>>,
     <<340, {BaseEdge("foo", "bar"), BaseEdge("baz", "qux")}, [num |-> 1, den |-> 3]>>}

\* The check at the line a[1] of TestDensity, on the digraph the test has
\* built by then.
ExpectDensity(a) ==
    /\ mg.g = Graph(TRUE, a[2])
    /\ mg' = [mg EXCEPT !.obs = [test |-> "TestDensity", line |-> a[1],
                                 expected |-> a[3], actual |-> Density(mg.g)]]
    /\ UNCHANGED <<bernVars, builderVars, br, nq>>

\* A process starts with the global source of math/rand in its default state.
BernoulliInit ==
    /\ gen = [i \in Gens |-> NoGen]
    /\ globalRand = 1
    /\ log = [i \in Gens |-> <<>>]

OtherInit ==
    /\ br = Unbranched(DefaultSpec)
    /\ nq = NoQuery
    /\ mg = Fresh(FALSE)

Init ==
    /\ BernoulliInit
    /\ cur = DefaultSpec
    /\ recv = DefaultSpec
    /\ call = [name |-> "Spec", arg |-> "nil"]
    /\ OtherInit

\* Two variables have been assigned the same partly built spec.
BranchInit ==
    /\ BernoulliInit
    /\ cur = DefaultSpec
    /\ recv = DefaultSpec
    /\ call = [name |-> "Spec", arg |-> "nil"]
    /\ \E s \in PartlyBuilt : br = Unbranched(s)
    /\ nq = NoQuery
    /\ mg = Fresh(FALSE)

\* The earlier builder starts from BuildGraph().
OldInit ==
    /\ BernoulliInit
    /\ cur = BuildGraph
    /\ recv = BuildGraph
    /\ call = [name |-> "BuildGraph", arg |-> "nil"]
    /\ OtherInit

Construct(i) ==
    \E n \in Orders, rho \in Rhos, directed \in BOOLEAN, stable \in BOOLEAN,
       src \in Sources : BernoulliDistribution(i, n, rho, directed, stable, src)

\* Every operation, on one generator.
Next ==
    \/ Construct(1)
    \/ \E stopAt \in Stops : EachVertex(1, stopAt, MaxCalls)
    \/ \E stopAt \in Stops : EachEdge(1, stopAt, MaxCalls)
    \/ Order(1, MaxCalls)
    \/ Size(1, MaxCalls)

Spec == Init /\ [][Next]_vars

\* Longer histories of the calls that traverse the edge set of one generator.
EdgeNext ==
    \/ Construct(1)
    \/ \E stopAt \in Stops : EachEdge(1, stopAt, MaxTraversals)
    \/ Size(1, MaxTraversals)

EdgeSpec == Init /\ [][EdgeNext]_vars

\* Size() of unstable generators: every small order, and the orders on either
\* side of the first n(n-1) that does not fit in int.
ConstructUnstable(i) ==
    \E n \in 0..MaxSizeOrder \cup {46341, 46342},
       rho \in { [num |-> 0, den |-> 1], [num |-> 3, den |-> 10], [num |-> 1, den |-> 2],
                 [num |-> 7, den |-> 10], [num |-> 9, den |-> 10] },
       directed \in BOOLEAN, src \in Sources :
        BernoulliDistribution(i, n, rho, directed, FALSE, src)

SizeNext ==
    \/ ConstructUnstable(1)
    \/ Size(1, MaxCalls)

SizeSpec == Init /\ [][SizeNext]_vars

\* The second generator is constructed with the arguments of the first.
ConstructTwin ==
    /\ gen[1].status = "unstable"
    /\ BernoulliDistribution(2, gen[1].order, gen[1].rho, gen[1].directed, FALSE,
                             gen[1].src)

\* Two unstable generators of MaxOrder vertices, constructed one after the
\* other with the same n, rho and directedness, each with a source of its own
\* in the same initial state.
TwinNext ==
    \/ \E rho \in Rhos, directed \in BOOLEAN, src \in {x \in Sources : ~x.nil} :
          BernoulliDistribution(1, MaxOrder, rho, directed, FALSE, src)
    \/ ConstructTwin
    \/ \E i \in Gens, stopAt \in Stops : EachEdge(i, stopAt, MaxTwinCalls)

TwinSpec == Init /\ [][TwinNext]_vars

\* Any chain of builder methods from Spec().
BuilderNext == \E c \in BuilderCalls : Call(c)

BuilderSpec == Init /\ [][BuilderNext]_vars

\* Builder and Create calls on two variables, in any order.
BranchNext ==
    \/ \E h \in Handles, c \in BuilderCalls, d \in Handles :
          CallOn(h, c, d, MaxBranchCalls)
    \/ \E h \in Handles, f \in FactoryEdits : CreateOn(h, f, MaxBranchCalls)

BranchSpec == BranchInit /\ [][BranchNext]_vars

\* A suite is handed a factory of undirected or of directed graphs.
MutInit ==
    /\ BernoulliInit
    /\ cur = DefaultSpec
    /\ recv = DefaultSpec
    /\ call = [name |-> "Spec", arg |-> "nil"]
    /\ br = Unbranched(DefaultSpec)
    /\ nq = NoQuery
    /\ \E directed \in BOOLEAN : mg = Fresh(directed)

\* Any calls of the mutators, and the assertions of the suites where a test
\* has brought the graph.
MutNext ==
    \/ \E es \in EdgeLists : AddEdges(es, MaxEdges)
    \/ \E es \in EdgeLists : RemoveEdges(es)
    \/ \E es \in EdgeLists : AddArcs(es, MaxEdges)
    \/ \E es \in EdgeLists : RemoveArcs(es)
    \/ \E t \in EdgeSuite \cup ArcSuite : \E a \in t.checks : Expect(t, a)

MutSpec == MutInit /\ [][MutNext]_vars

\* Graphs built by adding one unlabeled edge at a time, and the checks of
\* TestDensity where the test has brought its digraph.
DensityNext ==
    \/ \E es \in DensityLists : AddEdges(es, MaxEdges)
    \/ \E es \in DensityLists : AddArcs(es, MaxEdges)
    \/ \E a \in TestDensity : ExpectDensity(a)

DensitySpec == MutInit /\ [][DensityNext]_vars

\* Any query of the null graph, with any arguments.
NullNext == \E c \in NullQueries : NullQuery(c)

NullSpec == Init /\ [][NullNext]_vars

\* Any chain of methods of the earlier builder from BuildGraph().
OldBuilderNext == \E c \in OldBuilderCalls : CallOld(c)

OldBuilderSpec == OldInit /\ [][OldBuilderNext]_vars


(***************************************************************************)
(* What the recorded calls show.                                           *)
(***************************************************************************)
IsTraversal(e) == e.op \in {"EachEdge", "Size"}

IsEachEdge(e) == e.op = "EachEdge"

IsFull(e) == ~e.terminated

EdgeSet(e) == {e.delivered[k] : k \in 1..Len(e.delivered)}

\* The calls on generator i that traverse its edge set (Size calls EachEdge).
Traversals(i) == SelectSeq(log[i], IsTraversal)

EdgeCalls(i) == SelectSeq(log[i], IsEachEdge)

FullEdgeCalls(i) == SelectSeq(EdgeCalls(i), IsFull)

Min(a, b) == IF a < b THEN a ELSE b

\* C1: on a stable generator every full traversal after the first full one
\* delivers exactly the set of (source, target) pairs the first full one delivered.
C1_SameEdgeSetOnEveryCall ==
    gen[1].status = "stable" =>
        \A j, k \in 1..Len(Traversals(1)) :
            (j < k /\ IsFull(Traversals(1)[j]) /\ IsFull(Traversals(1)[k]))
                => EdgeSet(Traversals(1)[k]) = EdgeSet(Traversals(1)[j])

\* C2: on a stable generator whose edge set is materialized, two successive
\* full traversals deliver the same edges.
C2_ReplayIdempotent ==
    gen[1].status = "stable" =>
        \A j \in 1..(Len(Traversals(1)) - 1) :
            LET a == Traversals(1)[j]
                b == Traversals(1)[j + 1]
            IN  (a.mat /\ b.mat /\ IsFull(a) /\ IsFull(b))
                    => EdgeSet(a) = EdgeSet(b)

\* C2's case: a first traversal cut short, then two full replays of a non-empty set.
C2_Witness ==
    /\ gen[1].status = "stable"
    /\ Len(log[1]) = 3
    /\ log[1][1].terminated /\ ~log[1][1].mat
    /\ IsEachEdge(log[1][2]) /\ IsFull(log[1][2]) /\ log[1][2].mat
    /\ IsEachEdge(log[1][3]) /\ IsFull(log[1][3]) /\ log[1][3].mat
    /\ EdgeSet(log[1][2]) # {}

\* C3: Size() of a stable generator returns the number of edges a full
\* EachEdge traversal of that generator delivers.
C3_SizeIsExactCount ==
    (gen[1].status = "stable" /\ Len(log[1]) > 0 /\ log[1][Len(log[1])].op = "Size")
        => log[1][Len(log[1])].ret
               = Len(stableEachEdge(gen[1], SourceOf(gen[1]), 0).delivered)

NoLoop(e) == \A k \in 1..Len(e.delivered) : e.delivered[k][1] # e.delivered[k][2]

NoRepeat(e) ==
    \A j, k \in 1..Len(e.delivered) : j # k => e.delivered[j] # e.delivered[k]

NoBothWays(e) ==
    \A j, k \in 1..Len(e.delivered) :
        e.delivered[j] # <<e.delivered[k][2], e.delivered[k][1]>>

\* C4: every EachEdge traversal delivers a simple graph: no loop, no pair
\* twice and, undirected, no pair in both orientations.
C4_OnlySimpleGraphs ==
    \A k \in 1..Len(EdgeCalls(1)) :
        LET e == EdgeCalls(1)[k]
        IN  /\ NoLoop(e)
            /\ NoRepeat(e)
            /\ ~gen[1].directed => NoBothWays(e)

\* C5: BernoulliDistribution panics, returning no generator, exactly when
\* rho < 0 or rho >= 1; for every other rho it returns a generator.
C5_PanicIffRhoOutOfRange ==
    gen[1].status # "none" =>
        /\ gen[1].status = "panicked"
              <=> (gen[1].rho.num < 0 \/ gen[1].rho.num >= gen[1].rho.den)
        /\ gen[1].status = "panicked" => log[1] = <<>>

\* C5's case: the construction with rho = 1.0 panicked.
C5_Witness == gen[1].status = "panicked" /\ gen[1].rho = [num |-> 1, den |-> 1]

\* C6: an enumeration invokes the step function no more after the invocation
\* on which it returned true.
C6_StopsOnTerminate ==
    \A k \in 1..Len(log[1]) :
        LET e == log[1][k]
        IN  (e.op \in {"EachVertex", "EachEdge"} /\ e.stopAt > 0)
                => /\ Len(e.delivered) <= e.stopAt
                   /\ e.terminated <=> Len(e.delivered) = e.stopAt

\* C6's case: a first pass that handed three edges or more to a step function
\* that never terminates, then a replay cut short at its second element.
C6_Witness ==
    /\ gen[1].status = "stable"
    /\ Len(log[1]) = 2
    /\ IsEachEdge(log[1][1]) /\ log[1][1].stopAt = 0 /\ Len(log[1][1].delivered) >= 3
    /\ IsEachEdge(log[1][2]) /\ log[1][2].stopAt = 2 /\ log[1][2].terminated

\* Two unstable generators with the same n, rho and directedness, each with a
\* source of its own that started in the same state.
Twins ==
    /\ gen[1].status = "unstable" /\ gen[2].status = "unstable"
    /\ gen[1].order = gen[2].order
    /\ gen[1].rho = gen[2].rho
    /\ gen[1].directed = gen[2].directed
    /\ ~gen[1].src.nil /\ ~gen[2].src.nil
    /\ gen[1].src.state = gen[2].src.state

\* C7 as stated: twins deliver the same sequence of edges on their k-th full
\* EachEdge traversal, for every k.
C7_SameOnKthFullTraversal ==
    Twins =>
        \A k \in 1..Min(Len(FullEdgeCalls(1)), Len(FullEdgeCalls(2))) :
            FullEdgeCalls(1)[k].delivered = FullEdgeCalls(2)[k].delivered

\* C7, amended: twins deliver the same sequence of edges on their k-th EachEdge
\* traversal whenever that traversal and every earlier one was full on both.
C7_SameOnKthTraversalAfterFullOnes ==
    Twins =>
        \A k \in 1..Min(Len(EdgeCalls(1)), Len(EdgeCalls(2))) :
            (\A j \in 1..k : IsFull(EdgeCalls(1)[j]) /\ IsFull(EdgeCalls(2)[j]))
                => EdgeCalls(1)[k].delivered = EdgeCalls(2)[k].delivered

\* C7's case: twins that each made two full traversals, the second unlike the first.
C7_Witness ==
    /\ Twins
    /\ Len(FullEdgeCalls(1)) = 2 /\ Len(FullEdgeCalls(2)) = 2
    /\ FullEdgeCalls(1)[1].delivered # FullEdgeCalls(1)[2].delivered
    /\ FullEdgeCalls(1)[2].delivered # <<>>

\* C8: a generator of no vertices has Order() = 0 and Size() = 0 and its
\* EachVertex and EachEdge never invoke the step function.
C8_EmptyGenerator ==
    (gen[1].status \in {"stable", "unstable"} /\ gen[1].order = 0) =>
        \A k \in 1..Len(log[1]) : log[1][k].delivered = <<>> /\ log[1][k].ret = 0

\* C8's case: a stable generator of no vertices after EachVertex and Size.
C8_Witness ==
    /\ gen[1].status = "stable" /\ gen[1].order = 0 /\ gen[1].rho.num > 0
    /\ Len(log[1]) = 2
    /\ log[1][1].op = "EachVertex"
    /\ log[1][2].op = "Size"


(***************************************************************************)
(* What a spec's Props say.                                                *)
(***************************************************************************)
Has(b, flag) == And(b.Props, flag) = flag

Count(b, flags) == Cardinality({f \in flags : Has(b, f)})

SameAxis(a, c) ==
    \E axis \in {DirectednessMethods, RichnessMethods, MultiplicityMethods,
                 MutabilityMethods} : a.name \in axis /\ c.name \in axis

\* The methods that clear every other flag of their axis.
Overwriting ==
    {"Undirected", "Directed", "Basic", "SimpleGraph", "MultiGraph", "PseudoGraph",
     "Mutable", "Immutable"}

\* The methods that clear the base flag of their axis only.
Adding == {"Labeled", "Weighted", "DataEdges", "Parallel", "Loop"}

FlagOf(name) ==
    CASE name = "Labeled" -> G_LABELED
      [] name = "Weighted" -> G_WEIGHTED
      [] name = "DataEdges" -> G_DATA
      [] name = "Parallel" -> G_PARALLEL
      [] name = "Loop" -> G_LOOPS

\* C9 as stated: a reachable spec has exactly one flag set on each axis.
C9_OneFlagPerAxis ==
    /\ Count(cur, {G_UNDIRECTED, G_DIRECTED}) = 1
    /\ Count(cur, {G_BASIC, G_LABELED, G_WEIGHTED, G_DATA}) = 1
    /\ Count(cur, {G_SIMPLE, G_LOOPS, G_PARALLEL}) = 1
    /\ Count(cur, {G_MUTABLE, G_IMMUTABLE, G_PERSISTENT}) = 1

\* C9, amended: a reachable spec has exactly one flag set on the directedness
\* axis and on the mutability axis, and at least one on the richness axis and
\* on the multiplicity axis, where basic is never set together with labeled,
\* weighted or data, nor simple together with loops or parallel.
C9_OneFlagOrSeveralAdded ==
    /\ Count(cur, {G_UNDIRECTED, G_DIRECTED}) = 1
    /\ Count(cur, {G_MUTABLE, G_IMMUTABLE, G_PERSISTENT}) = 1
    /\ Count(cur, {G_BASIC, G_LABELED, G_WEIGHTED, G_DATA}) >= 1
    /\ Has(cur, G_BASIC) => Count(cur, {G_LABELED, G_WEIGHTED, G_DATA}) = 0
    /\ Count(cur, {G_SIMPLE, G_LOOPS, G_PARALLEL}) >= 1
    /\ Has(cur, G_SIMPLE) => Count(cur, {G_LOOPS, G_PARALLEL}) = 0

\* C9's case: a directed, immutable spec with labeled and weighted edges,
\* loops and parallel edges, as returned by Immutable.
C9_Witness ==
    /\ call.name = "Immutable"
    /\ Has(cur, G_DIRECTED) /\ Has(cur, G_IMMUTABLE)
    /\ Has(cur, G_LABELED) /\ Has(cur, G_WEIGHTED)
    /\ Has(cur, G_LOOPS) /\ Has(cur, G_PARALLEL)

\* C10 as stated: for two methods a, b of one axis, s.a().b() has the Props of
\* s.b() (s is recv, a the last call and s.a() the current spec).
C10_LastWriteWins ==
    \A c \in BuilderCalls :
        SameAxis(call, c) => Apply(c, cur).Props = Apply(c, recv).Props

\* C10, amended: s.a().b() has the Props of s.b() when b is one of Undirected,
\* Directed, Basic, SimpleGraph, MultiGraph, PseudoGraph, Mutable, Immutable;
\* when a and b are among Labeled, Weighted, DataEdges, Loop and Parallel,
\* s.a().b() has the flag of a and the flag of b.
C10_LastWriteWinsWhenOverwriting ==
    \A c \in BuilderCalls :
        SameAxis(call, c) =>
            /\ c.name \in Overwriting => Apply(c, cur).Props = Apply(c, recv).Props
            /\ (call.name \in Adding /\ c.name \in Adding)
                  => /\ Has(Apply(c, cur), FlagOf(call.name))
                     /\ Has(Apply(c, cur), FlagOf(c.name))

\* C10's case: Loop was called on a simple spec with weighted edges; a
\* MultiGraph or a Labeled may follow.
C10_Witness ==
    /\ call.name = "Loop"
    /\ Has(recv, G_SIMPLE) /\ Has(recv, G_WEIGHTED)
    /\ Has(cur, G_LOOPS)


\* C11: a call of Undirected() returns a spec with the undirected flag set and
\* the directed flag clear, whatever its receiver (one returned by Directed()
\* included); a call of Directed() returns a spec with the directed flag set
\* and the undirected flag clear; and every spec reachable from the initial
\* one has exactly one of the two directedness flags set.
C11_SecondDirectednessWins ==
    /\ call.name = "Undirected" =>
           Has(cur, G_UNDIRECTED) /\ ~Has(cur, G_DIRECTED)
    /\ call.name = "Directed" =>
           Has(cur, G_DIRECTED) /\ ~Has(cur, G_UNDIRECTED)
    /\ Count(cur, {G_UNDIRECTED, G_DIRECTED}) = 1

\* Undirected() has been called on a spec that Directed() had made directed.
C11_Witness ==
    /\ call.name = "Undirected"
    /\ Has(recv, G_DIRECTED)

\* C12: every property method is idempotent: calling the method that has just
\* returned the current spec once more, on that spec, returns a spec with the
\* same Props and the same Source.
C12_Idempotent ==
    call.name \in PropertyMethods =>
        /\ Apply(call, cur).Props = cur.Props
        /\ Apply(call, cur).Source = cur.Source

\* A property method has returned a spec that differs from its receiver.
C12_Witness ==
    /\ call.name \in PropertyMethods
    /\ cur.Props # recv.Props

\* The flags of the axis a property method belongs to.
AxisFlags(name) ==
    CASE name \in DirectednessMethods -> Or(G_UNDIRECTED, G_DIRECTED)
      [] name \in RichnessMethods ->
            Or(Or(G_BASIC, G_LABELED), Or(G_WEIGHTED, G_DATA))
      [] name \in MultiplicityMethods -> Or(Or(G_SIMPLE, G_LOOPS), G_PARALLEL)
      [] name \in MutabilityMethods ->
            Or(G_IMMUTABLE, G_PERSISTENT)

\* C13: a property method returns a spec whose flags outside the method's own
\* axis, and whose Source, are those of the receiver; Using(g) returns a spec
\* with the receiver's Props and with g as Source.
C13_OtherAxesUntouched ==
    /\ call.name \in PropertyMethods =>
           /\ AndNot(cur.Props, AxisFlags(call.name))
                 = AndNot(recv.Props, AxisFlags(call.name))
           /\ cur.Source = recv.Source
    /\ call.name = "Using" =>
           /\ cur.Props = recv.Props
           /\ cur.Source = call.arg

\* Immutable() has been called on a directed, weighted multigraph spec that
\* has a source.
C13_Witness ==
    /\ call.name = "Immutable"
    /\ Has(recv, G_DIRECTED)
    /\ Has(recv, G_WEIGHTED)
    /\ Has(recv, G_PARALLEL)
    /\ recv.Source # "nil"
    /\ cur.Props # recv.Props

\* C14: the spec Spec() returns has the flags undirected, simple, basic and
\* mutable set, no other flag set, and no source.
C14_DefaultSpec ==
    call.name = "Spec" =>
        /\ Has(cur, G_UNDIRECTED)
        /\ Has(cur, G_SIMPLE)
        /\ Has(cur, G_BASIC)
        /\ Has(cur, G_MUTABLE)
        /\ AndNot(cur.Props,
                  Or(Or(G_UNDIRECTED, G_SIMPLE), Or(G_BASIC, G_MUTABLE))) = 0
        /\ cur.Source = "nil"

\* Spec() has returned and no method has been called on its result yet.
C14_Witness ==
    /\ call.name = "Spec"
    /\ recv = cur

\* C15: a builder method or Create called on a variable leaves the Props and
\* the Source of every variable but the one its result is assigned to as they
\* were, the receiver included; the result is the method applied to the
\* receiver's value. Create assigns to no variable.
C15_ValueSemantics ==
    br.n > 0 =>
        /\ \A h \in Handles :
              h # br.dst =>
                  /\ br.store[h].Props = br.before[h].Props
                  /\ br.store[h].Source = br.before[h].Source
        /\ br.dst \in Handles =>
              br.store[br.dst] = Apply(br.op, br.before[br.recvH])

\* Two chains have branched from a partly built spec that is not the default
\* one: a method has been called on each of the two variables, the second
\* changing its variable, and the two now differ from each other.
C15_Witness ==
    /\ br.n = 2
    /\ br.base # DefaultSpec
    /\ br.recvH = br.dst
    /\ br.store[1] # br.base
    /\ br.store[2] # br.base
    /\ br.store[1] # br.store[2]
    /\ br.store[br.dst] # br.before[br.dst]

\* Create has handed a creator function a spec that the function changed.
C15_WitnessCreate ==
    /\ br.op.name = "Create"
    /\ br.made # br.store[br.recvH]

\* C16: whatever its arguments, a query of the null graph answers as the
\* empty graph does: an enumeration has invoked its callback zero times, a
\* membership query has returned false, a degree query (0, not found),
\* Density NaN, Transpose the null graph itself, and Order and Size 0.
C16_NullGraphIsEmpty ==
    /\ nq.calls = 0
    /\ nq.c.q \in HasQueries => nq.ret = FALSE
    /\ nq.c.q \in DegreeQueries => nq.ret = <<0, FALSE>>
    /\ nq.c.q = "Density" => nq.ret.den = 0 /\ nq.ret.num = 0
    /\ nq.c.q = "Transpose" => nq.ret = NullGraph
    /\ nq.c.q \in Counts => nq.ret = 0

\* The density of the null graph has been asked for.
C16_Witness ==
    /\ nq.c.q = "Density"
    /\ nq.ret = NaN

\* The labels a membership query may carry: those of the edges added and the
\* wrong ones of the suites.
QueryLabels == Properties \cup {"baz", "qux"}

Mutators == {"AddEdges", "RemoveEdges", "AddArcs", "RemoveArcs"}

\* Order, Size and every membership query answer the same on g and on h.
SameAnswers(g, h) ==
    /\ OrderOf(g) = OrderOf(h)
    /\ SizeOf(g) = SizeOf(h)
    /\ \A x \in Vertexes, y \in Vertexes :
          /\ HasEdge(g, x, y) = HasEdge(h, x, y)
          /\ \A l \in QueryLabels :
                HasLabeledEdge(g, x, y, l) = HasLabeledEdge(h, x, y, l)

\* C17: a call of AddEdges, RemoveEdges, AddArcs or RemoveArcs with no
\* arguments, on any graph, leaves Order, Size and the answer of every
\* membership query as they were; and what TestGracefulEmptyVariadics expects
\* of Order and Size after such a call is what the graph answers.
C17_EmptyVariadicsChangeNothing ==
    /\ mg.op.name \in Mutators /\ mg.op.es = <<>> => SameAnswers(mg.g, mg.prev)
    /\ mg.obs.test = "TestGracefulEmptyVariadics" =>
           mg.obs.expected = mg.obs.actual

\* RemoveArcs() has been called with no arguments on a digraph that holds
\* arcs.
C17_Witness ==
    /\ mg.op.name = "RemoveArcs"
    /\ mg.op.es = <<>>
    /\ SizeOf(mg.prev) >= 2

\* The lines of the assertions the suites make after removing what they added.
RemovalLines == {113, 114, 142, 143, 144, 145, 186, 187, 215, 216, 217, 218}

\* C18: when edges none of which the graph had have been added (one, or
\* several in one call), removing the same edges gives a graph that has none
\* of them, with or without its label, in either orientation if the graph is
\* undirected, and whose Size and Order are those before the add; and the
\* suites expect just what the graph answers after their removals.
C18_AddRemoveRoundTrip ==
    /\ (/\ mg.op.name \in {"AddEdges", "AddArcs"}
        /\ mg.op.es # <<>>
        /\ \A k \in 1..Len(mg.op.es) :
              ~HasEdge(mg.prev, mg.op.es[k].u, mg.op.es[k].v))
       => LET back == removeAll(mg.g, mg.op.es)
          IN  /\ \A k \in 1..Len(mg.op.es) :
                    LET e == mg.op.es[k]
                    IN  /\ ~HasEdge(back, e.u, e.v)
                        /\ ~HasLabeledEdge(back, e.u, e.v, e.x)
                        /\ ~mg.g.directed =>
                               /\ ~HasEdge(back, e.v, e.u)
                               /\ ~HasLabeledEdge(back, e.v, e.u, e.x)
              /\ SizeOf(back) = SizeOf(mg.prev)
              /\ OrderOf(back) = OrderOf(mg.prev)
    /\ mg.obs.line \in RemovalLines => mg.obs.expected = mg.obs.actual

\* Two edges have been added in one call to a graph that held another edge,
\* bringing a new vertex with them.
C18_Witness ==
    /\ mg.op.name = "AddEdges"
    /\ Len(mg.op.es) = 2
    /\ SizeOf(mg.prev) = 1
    /\ SizeOf(mg.g) = 3
    /\ OrderOf(mg.g) > OrderOf(mg.prev)

\* The lines of the assertions the edge suite makes after adding its edges.
EdgeSuiteMembershipLines ==
    {103, 104, 106, 107, 108, 109, 125, 126, 127, 128, 131, 132, 133, 134, 135,
     136, 137, 138}

\* C19: in an undirected graph, HasLabeledEdge(x, y, l) is true exactly when
\* the graph holds an edge between x and y, stored in either orientation,
\* whose label is l, and HasEdge(x, y) exactly when it holds an edge between x
\* and y whatever its label; and the edge suite expects just what the graph
\* answers.
C19_LabelAwareMembership ==
    /\ ~mg.g.directed =>
           \A x \in Vertexes, y \in Vertexes :
               /\ HasEdge(mg.g, x, y)
                     <=> \E e \in mg.g.edges : {e.u, e.v} = {x, y}
               /\ \A l \in QueryLabels :
                     HasLabeledEdge(mg.g, x, y, l)
                        <=> \E e \in mg.g.edges : {e.u, e.v} = {x, y} /\ e.x = l
    /\ mg.obs.line \in EdgeSuiteMembershipLines =>
           mg.obs.expected = mg.obs.actual

\* TestAddRemoveHasEdge has asked, at line 108, for the edge it added from 1
\* to 2 in the orientation from 2 to 1, with its label.
C19_Witness ==
    /\ mg.obs.line = 108
    /\ mg.obs.actual = TRUE
    /\ ~mg.g.directed
    /\ mg.g.edges = {LabeledEdge(1, 2, "foo")}

\* In a digraph that holds an arc from u to v and none from v to u, HasArc
\* and HasLabeledArc with the stored label are true for (u, v), and HasArc
\* and HasLabeledArc with any label are false for (v, u).
OrientedAnswers(g) ==
    \A e \in g.edges :
        (\A d \in g.edges : ~(d.u = e.v /\ d.v = e.u)) =>
            /\ HasArc(g, e.u, e.v)
            /\ HasLabeledArc(g, e.u, e.v, e.x)
            /\ ~HasArc(g, e.v, e.u)
            /\ \A l \in QueryLabels : ~HasLabeledArc(g, e.v, e.u, l)

\* The lines of the assertions the arc suite makes after adding its arcs.
ArcSuiteMembershipLines ==
    {176, 177, 179, 180, 181, 182, 198, 199, 200, 201, 204, 205, 206, 207, 208,
     209, 210, 211}

\* C20: a digraph answers membership queries by orientation (an arc from u to
\* v, with none from v to u, is there as (u, v) and not as (v, u), with any
\* label), and the arc suite expects of HasArc and HasLabeledArc just those
\* answers.
C20_ReverseArcIsAbsent ==
    /\ mg.g.directed => OrientedAnswers(mg.g)
    /\ mg.obs.line \in ArcSuiteMembershipLines =>
           mg.obs.expected = mg.obs.actual

\* What the digraph of the model alone does: C20 without the expectations of
\* the arc suite.
C20_ModelledDigraph == mg.g.directed => OrientedAnswers(mg.g)

\* Density() of g is Size() over the most edges a graph of Order() vertices
\* and g's directedness can hold, and NaN when Order() < 2.
DensityIsRatio(g) ==
    IF OrderOf(g) < 2 THEN IsNaN(Density(g))
    ELSE SameFloat(Density(g),
                   [num |-> SizeOf(g),
                    den |-> IF g.directed THEN OrderOf(g) * (OrderOf(g) - 1)
                            ELSE (OrderOf(g) * (OrderOf(g) - 1)) \div 2])

\* C21: on every graph reached by adding edges, Density() is Size() divided
\* by n(n-1)/2 (undirected) or n(n-1) (directed), n being Order(), and NaN
\* when Order() < 2; and TestDensity expects of Density() just that value.
C21_DensityIsSizeOverMaxEdges ==
    /\ DensityIsRatio(mg.g)
    /\ mg.obs.test = "TestDensity" =>
           IF IsNaN(mg.obs.expected) THEN IsNaN(mg.obs.actual)
           ELSE SameFloat(mg.obs.expected, mg.obs.actual)

\* What the graph of the model alone does: C21 without the expectations of
\* TestDensity.
C21_ModelledDensity == DensityIsRatio(mg.g)

\* The state of the source generator 1 draws from, before any call on it.
FirstSource == IF gen[1].ownSrc THEN gen[1].src.state ELSE 1

\* The trials the calls before the k-th one on generator 1 have run.
RECURSIVE TrialsBefore(_)
TrialsBefore(k) == IF k <= 1 THEN 0 ELSE TrialsBefore(k - 1) + log[1][k - 1].trials

\* The state of a source j draws after the state s.
RECURSIVE Draws(_, _)
Draws(s, j) == IF j = 0 THEN s ELSE Draws(RandNext(s), j - 1)

\* The candidate pairs of a generator of n vertices, in increasing (u, v)
\* order: u < v when undirected, u # v when directed.
IsCandidate(directed, p) == IF directed THEN p[1] # p[2] ELSE p[1] < p[2]

Candidates(n, directed) ==
    SelectSeq([k \in 1..(n * n) |-> <<(k - 1) \div n, (k - 1) % n>>],
              LAMBDA p : IsCandidate(directed, p))

\* The candidates whose trial succeeds when the j-th candidate is decided by
\* the j-th draw after the state s.
RECURSIVE Successes(_, _, _, _)
Successes(cands, rho, s, j) ==
    IF j > Len(cands) THEN <<>>
    ELSE LET rest == Successes(cands, rho, RandNext(s), j + 1)
         IN  IF Trial(RandNext(s), rho) THEN <<cands[j]>> \o rest ELSE rest

\* The k-th call on generator 1 was a generation pass that ran to its end: an
\* EachEdge of an unstable generator, or the first traversal of a stable one.
FullGeneration(k) ==
    /\ ~log[1][k].terminated
    /\ \/ gen[1].status = "unstable" /\ log[1][k].op = "EachEdge"
       \/ gen[1].status = "stable" /\ IsTraversal(log[1][k]) /\ ~log[1][k].mat

\* C22: a generation pass that runs to its end runs as many trials as there
\* are candidate pairs (n(n-1)/2 undirected, n(n-1) directed), and delivers, in
\* increasing (u, v) order, exactly the candidates whose own trial (the j-th
\* draw of the pass for the j-th candidate) succeeded.
C22_OneTrialPerCandidate ==
    \A k \in 1..Len(log[1]) :
        FullGeneration(k) =>
            LET n == gen[1].order
                cands == Candidates(n, gen[1].directed)
            IN  /\ Len(cands)
                      = IF gen[1].directed THEN n * (n - 1) ELSE (n * (n - 1)) \div 2
                /\ log[1][k].trials = Len(cands)
                /\ log[1][k].delivered
                      = Successes(cands, gen[1].rho,
                                  Draws(FirstSource, TrialsBefore(k)), 1)

\* A second generation pass of a digraph of 3 vertices has run its 6 trials,
\* of which some succeeded and some failed.
C22_Witness ==
    /\ Len(log[1]) >= 2
    /\ FullGeneration(2)
    /\ gen[1].directed
    /\ gen[1].order = 3
    /\ log[1][2].trials = 6
    /\ Len(log[1][2].delivered) \in 1..5

\* Generator 1 as BernoulliDistribution returned it.
AsConstructed == [gen[1] EXCEPT !.listNil = TRUE, !.list = NilSlice, !.size = 0]

\* What a full EachEdge delivers on generator 1 when the one call before it
\* was a full EachEdge too.
AfterFullFirstCall ==
    LET first == stableEachEdge(AsConstructed, FirstSource, 0)
    IN  stableEachEdge(first.g, first.rng, 0)

\* C23: on a stable generator, a full EachEdge that follows earlier calls
\* delivers the edge set it delivers when no earlier call was terminated
\* early, whether or not, and wherever, an earlier call was terminated.
C23_Restartable ==
    gen[1].status = "stable" =>
        \A k \in 2..Len(log[1]) :
            (IsEachEdge(log[1][k]) /\ IsFull(log[1][k]))
                => EdgeSet(log[1][k]) = EdgeSet(AfterFullFirstCall)

\* C23 for the calls that were terminated early while replaying: the first
\* call on the generator ran to its end.
C23_RestartableAfterFullFirstCall ==
    (gen[1].status = "stable" /\ Len(log[1]) > 0 /\ IsFull(log[1][1])) =>
        \A k \in 2..Len(log[1]) :
            (IsEachEdge(log[1][k]) /\ IsFull(log[1][k]))
                => EdgeSet(log[1][k]) = EdgeSet(AfterFullFirstCall)

\* n(n-1)/2 over the integers; it fits where n(n-1) itself no longer does.
Pairs(n) == IF n % 2 = 0 THEN (n \div 2) * (n - 1) ELSE n * ((n - 1) \div 2)

\* floor(rho * x) over the rationals.
FloorOfShare(x, rho) == (x \div rho.den) * rho.num + ((x % rho.den) * rho.num) \div rho.den

\* The value C24 names: floor(rho * n(n-1)/2), or floor(rho * n(n-1)) when
\* directed, whatever the size of n.
ExpectedSize(g) ==
    LET h == Pairs(g.order)
    IN  IF g.directed
        THEN 2 * (h \div g.rho.den) * g.rho.num
                 + ((2 * (h % g.rho.den)) * g.rho.num) \div g.rho.den
        ELSE FloorOfShare(h, g.rho)

IsSize(e) == e.op = "Size"

\* C24: Size() of an unstable generator runs no trial, is never negative and
\* is floor(rho * n(n-1)/2), or floor(rho * n(n-1)) when directed, for every
\* order and every rho in [0, 1).
C24_SizeIsFloorOfExpectation ==
    gen[1].status = "unstable" =>
        \A k \in 1..Len(log[1]) :
            IsSize(log[1][k]) =>
                /\ log[1][k].trials = 0
                /\ log[1][k].ret >= 0
                /\ log[1][k].ret = ExpectedSize(gen[1])

\* n(n-1) fits in int: halving the int product gives n(n-1)/2.
FitsInt(n) ==
    LET cs == IntMul(n, n - 1)
    IN  cs >= 0 /\ cs \div 2 = Pairs(n)

\* What does hold of Size() of an unstable generator: it runs no trial, and
\* while n(n-1) fits in int it is not negative and at most one away from the
\* value C24 names; when rho is a power of two it is that value.
C24_SizeIsNearExpectation ==
    gen[1].status = "unstable" =>
        \A k \in 1..Len(log[1]) :
            IsSize(log[1][k]) =>
                /\ log[1][k].trials = 0
                /\ FitsInt(gen[1].order) =>
                       /\ log[1][k].ret >= 0
                       /\ log[1][k].ret - ExpectedSize(gen[1]) \in {-1, 0, 1}
                       /\ gen[1].rho.den \in {1, 2} =>
                              log[1][k].ret = ExpectedSize(gen[1])

\* Size() that is one below the value C24 names.
C24_RoundedBelow ==
    /\ gen[1].status = "unstable" /\ gen[1].order = 10 /\ gen[1].directed
    /\ Len(log[1]) = 1 /\ IsSize(log[1][1])
    /\ log[1][1].ret = ExpectedSize(gen[1]) - 1

\* Size() that is negative.
C24_Negative ==
    /\ gen[1].status = "unstable" /\ ~FitsInt(gen[1].order)
    /\ Len(log[1]) = 1 /\ IsSize(log[1][1])
    /\ log[1][1].ret < 0

\* C25: whatever the multiplicity flags were, SimpleGraph() leaves simple set
\* and loops and parallel clear, MultiGraph() leaves parallel set and simple
\* and loops clear, PseudoGraph() leaves loops and parallel set and simple
\* clear.
C25_MultiplicityIsSetOutright ==
    /\ call.name = "SimpleGraph" =>
           /\ Has(cur, G_SIMPLE)
           /\ And(cur.Props, G_LOOPS) = 0
           /\ And(cur.Props, G_PARALLEL) = 0
    /\ call.name = "MultiGraph" =>
           /\ Has(cur, G_PARALLEL)
           /\ And(cur.Props, G_SIMPLE) = 0
           /\ And(cur.Props, G_LOOPS) = 0
    /\ call.name = "PseudoGraph" =>
           /\ Has(cur, G_LOOPS)
           /\ Has(cur, G_PARALLEL)
           /\ And(cur.Props, G_SIMPLE) = 0

\* C25's case: SimpleGraph() called on a spec that allowed loops and parallel
\* edges.
C25_Witness ==
    /\ call.name = "SimpleGraph"
    /\ Has(recv, G_LOOPS) /\ Has(recv, G_PARALLEL)

\* C26: in every spec built from Spec(), basic is set exactly when none of
\* labeled, weighted, data is; simple is set exactly when neither loops nor
\* parallel is; exactly one of mutable and immutable is set; the bit that only
\* G_PERSISTENT carries is never set.
C26_BaseFlagIffNoOther ==
    /\ Has(cur, G_BASIC) <=> And(cur.Props, Or(G_LABELED, Or(G_WEIGHTED, G_DATA))) = 0
    /\ Has(cur, G_SIMPLE) <=> And(cur.Props, Or(G_LOOPS, G_PARALLEL)) = 0
    /\ Has(cur, G_MUTABLE) <=> ~Has(cur, G_IMMUTABLE)
    /\ And(cur.Props, AndNot(G_PERSISTENT, G_MUTABLE)) = 0

\* C26's case: a spec several calls away from Spec(), with a flag other than
\* the base flag on the edge type and multiplicity axes, made mutable again.
C26_Witness ==
    /\ call.name = "Mutable"
    /\ Has(recv, G_IMMUTABLE)
    /\ Has(cur, G_LABELED) /\ Has(cur, G_DATA)
    /\ Has(cur, G_PARALLEL)

\* C27: once the edge set of a stable generator is materialized, no call
\* draws from a random source, runs a trial or changes the recorded size or
\* the recorded edges, and Size() returns that recorded size.
C27_MaterializedIsFrozen ==
    [][(gen[1].status = "stable" /\ ~gen[1].listNil) =>
           /\ gen'[1].size = gen[1].size
           /\ gen'[1].list = gen[1].list
           /\ gen'[1].rng = gen[1].rng
           /\ globalRand' = globalRand
           /\ Len(log'[1]) > Len(log[1]) =>
                  LET e == log'[1][Len(log'[1])]
                  IN  /\ e.trials = 0
                      /\ IsSize(e) => e.ret = gen[1].size]_vars

\* C27's case: Size() materializes a non-empty edge set by running trials,
\* a traversal follows, and Size() is called again.
C27_Witness ==
    /\ gen[1].status = "stable"
    /\ Len(log[1]) = 3
    /\ IsSize(log[1][1]) /\ ~log[1][1].mat /\ log[1][1].trials > 0 /\ log[1][1].ret > 0
    /\ IsEachEdge(log[1][2]) /\ log[1][2].mat /\ log[1][2].delivered # <<>>
    /\ IsSize(log[1][3]) /\ log[1][3].mat /\ log[1][3].ret = log[1][1].ret
====
